---- MODULE Spec2Model ----
(***************************************************************************)
(* A model of bq-look-gen (src/main.py): the pipeline of main, which lists *)
(* the tables of a BigQuery dataset, collapses date-sharded families to    *)
(* their latest shard and writes one LookML view file per logical table.   *)
(*                                                                         *)
(* Strings that the program compares, searches or concatenates are         *)
(* sequences of code points; literal text of the output is kept as the     *)
(* format string of the write that produces it.                            *)
(***************************************************************************)
EXTENDS Integers, Sequences, FiniteSets, TLC

----------------------------------------------------------------------------
(* Strings *)

Underscore == <<95>>
DoubleUnderscore == <<95, 95>>
Lower_t == <<116>>
Lower_p == <<112>>
Lower_d == <<100>>
Str_id == <<105, 100>>
Str_name == <<110, 97, 109, 101>>
\* ".view.lkml"
ViewExt == <<46, 118, 105, 101, 119, 46, 108, 107, 109, 108>>

\* the decimal digits ds as a string
Digits(ds) == [i \in 1..Len(ds) |-> 48 + ds[i]]

None == <<>>
Some(v) == <<v>>

Range(s) == {s[i] : i \in DOMAIN s}

Min(a, b) == IF a <= b THEN a ELSE b

\* Python's str.__lt__: code-point lexicographic order
StrLess(a, b) ==
    \E i \in 1..(Min(Len(a), Len(b)) + 1) :
        /\ \A j \in 1..(i - 1) : a[j] = b[j]
        /\ \/ i > Len(a) /\ i <= Len(b)
           \/ i <= Len(a) /\ i <= Len(b) /\ a[i] < b[i]

\* Python's tuple.__lt__ on tuples of strings
TupleLess(x, y) ==
    \E i \in 1..(Min(Len(x), Len(y)) + 1) :
        /\ \A j \in 1..(i - 1) : x[j] = y[j]
        /\ \/ i > Len(x) /\ i <= Len(y)
           \/ i <= Len(x) /\ i <= Len(y) /\ StrLess(x[i], y[i])

----------------------------------------------------------------------------
(* TableInfo: the regular expression _\d{8}\Z, clear_name, is_sharding, path *)

\* the {8} of _shard_suffix
ShardDigits == 8

\* \d, for table names written in ASCII: the digits 0 to 9
IsDigit(c) == c \in 48..57

\* a pattern that lacks the \Z anchor
AtEndUnanchored(s, j) == TRUE

\* \Z: position j is the last of s
AtEnd(s, j) == j = Len(s)

\* the pattern _\d{8}\Z matches s starting at position i
MatchAt(s, i) ==
    /\ i + ShardDigits <= Len(s)
    /\ s[i] = Underscore[1]
    /\ \A k \in 1..ShardDigits : IsDigit(s[i + k])
    /\ AtEnd(s, i + ShardDigits)

\* re.search(_shard_suffix, s) finds a match
re_search(s) == \E i \in 1..Len(s) : MatchAt(s, i)

\* re.sub(_shard_suffix, '', s): every non-overlapping match, leftmost
\* first, is replaced by the empty string; `from` is where the scan resumes
RECURSIVE re_sub_from(_, _)
re_sub_from(s, from) ==
    LET starts == {i \in from..Len(s) : MatchAt(s, i)}
    IN  IF starts = {} THEN SubSeq(s, from, Len(s))
        ELSE LET i == CHOOSE m \in starts : \A n \in starts : m <= n
             IN  SubSeq(s, from, i - 1) \o re_sub_from(s, i + ShardDigits + 1)

re_sub(s) == re_sub_from(s, 1)

Date_20230101 == Digits(<<2, 0, 2, 3, 0, 1, 0, 1>>)
Date_20230215 == Digits(<<2, 0, 2, 3, 0, 2, 1, 5>>)
Date_20220601 == Digits(<<2, 0, 2, 2, 0, 6, 0, 1>>)

\* Physical table names: an unsuffixed table and three shards of one family,
\* names whose digit run is 7 or 9 long, a name that is only the suffix and
\* a name whose 8 digits follow no underscore.
Names ==
    { Lower_t,
      Lower_t \o Underscore \o Date_20230101,
      Lower_t \o Underscore \o Date_20230215,
      Lower_t \o Underscore \o Date_20220601,
      Lower_t \o Underscore \o Digits(<<2, 0, 2, 3, 0, 1, 0>>),
      Lower_t \o Underscore \o Digits(<<2, 0, 2, 3, 0, 1, 0, 1, 1>>),
      Underscore \o Date_20230101,
      Lower_t \o Date_20230101 }

\* re.sub(_shard_suffix, '', table_id) of every table name, computed once
ClearNames == [n \in Names |-> re_sub(n)]

\* re.search(_shard_suffix, name) of every table name, computed once
ShardMatches == [n \in Names |-> re_search(n)]

\* TableInfo.clear_name of the table named name
clear_name(name) == ClearNames[name]

\* TableInfo.is_sharding
is_sharding(name) == ShardMatches[name]

project_id == Lower_p
dataset_id == Lower_d

\* a path that uses the physical name
PathOfName(name) == <<dataset_id, name \o ViewExt>>

\* TableInfo.path: ./views/<dataset_id>/<clear_name>.view.lkml, without the
\* two leading components, which never change
Path(name) == <<dataset_id, clear_name(name) \o ViewExt>>

----------------------------------------------------------------------------
(* The shard collapser: get_tables_info and filter_latest_tables_info *)

\* a sort key that leaves out the physical name
SortKeyClearOnly(name) == <<clear_name(name)>>

\* a sort key that leaves out the logical name
SortKeyNameOnly(name) == <<name>>

\* key=lambda x: (x.clear_name, x.name)
SortKey(name) == <<clear_name(name), name>>

\* x put into the sorted list s behind every element whose key is not greater
Insert(s, x) ==
    LET later == {i \in 1..Len(s) : TupleLess(SortKey(x), SortKey(s[i]))}
        at == IF later = {} THEN Len(s) + 1
              ELSE CHOOSE m \in later : \A n \in later : m <= n
    IN  SubSeq(s, 1, at - 1) \o <<x>> \o SubSeq(s, at, Len(s))

\* sorted(list, key=...): a stable sort
RECURSIVE sorted(_)
sorted(s) ==
    IF s = <<>> THEN <<>>
    ELSE Insert(sorted(SubSeq(s, 1, Len(s) - 1)), s[Len(s)])

\* get_table_refs: the rows of __TABLES__ whose table_id is not None
TableRefs(rows) ==
    LET kept == SelectSeq(rows, LAMBDA r : r # None)
    IN  [i \in 1..Len(kept) |-> kept[i][1]]

\* get_tables_info
get_tables_info(tables) == sorted(tables)

\* itertools.groupby: the length of the first run of s that shares one key
GroupLen(s) ==
    CHOOSE k \in 1..Len(s) :
        /\ \A i \in 1..k : clear_name(s[i]) = clear_name(s[1])
        /\ k = Len(s) \/ clear_name(s[k + 1]) # clear_name(s[1])

\* list(group)[0]
FirstOf(group) == group[1]

\* list(group)[-1]
LatestOf(group) == group[Len(group)]

----------------------------------------------------------------------------
(* Schemas: a column is [name, field_type, fields] (bigquery.SchemaField) *)

Field(n, t, fs) == [name |-> n, field_type |-> t, fields |-> fs]

TimeTypes == {"TIME", "TIMESTAMP", "DATE", "DATETIME"}
NumberTypes == {"INTEGER", "FLOAT", "NUMERIC"}

\* a number list that leaves NUMERIC out
IsNumberTypeShort(t) == t \in {"INTEGER", "FLOAT"}

\* field.field_type in ['INTEGER', 'FLOAT', 'NUMERIC']
IsNumberType(t) == t \in NumberTypes

\* field.field_type in ['TIME', 'TIMESTAMP', 'DATE', 'DATETIME']
IsTimeType(t) == t \in TimeTypes

\* filter(lambda x: x.field_type == 'RECORD', fields)
RecordFields(fields) == SelectSeq(fields, LAMBDA x : x.field_type = "RECORD")

----------------------------------------------------------------------------
(* The renderer.  A file is the sequence of its f.write calls; a write is  *)
(* the format string with the strings substituted into it.                 *)

W(fmt, args) == [fmt |-> fmt, args |-> args]

\* ", ".join(names)
RECURSIVE JoinComma(_)
JoinComma(names) ==
    IF names = <<>> THEN <<>>
    ELSE IF Len(names) = 1 THEN names[1]
    ELSE names[1] \o <<44, 32>> \o JoinComma(Tail(names))

\* write_field
write_field(field) ==
    LET t == field.field_type
        open == IF IsTimeType(t)
                THEN <<W("  dimension_group: {} {\n", <<field.name>>)>>
                ELSE <<W("  dimension: {} {\n", <<field.name>>)>>
                     \o (IF field.name = Str_id
                         THEN <<W("    primary_key: yes\n", <<>>)>> ELSE <<>>)
        attrs ==
            IF IsNumberType(t) THEN <<W("    type: number\n", <<>>)>>
            ELSE IF t = "BOOLEAN" THEN <<W("    type: yesno\n", <<>>)>>
            ELSE IF IsTimeType(t) THEN
                <<W("    type: time\n", <<>>),
                  W("    timeframes: [\n", <<>>),
                  W("      raw,\n", <<>>)>>
                \o (IF t # "DATE" THEN <<W("      time,\n", <<>>)>> ELSE <<>>)
                \o <<W("      date,\n", <<>>),
                     W("      week,\n", <<>>),
                     W("      month,\n", <<>>),
                     W("      quarter,\n", <<>>),
                     W("      year\n", <<>>),
                     W("    ]\n", <<>>)>>
                \o (IF t = "DATE"
                    THEN <<W("    convert_tz: no\n", <<>>),
                           W("    datatype: date\n", <<>>)>>
                    ELSE <<>>)
            ELSE IF t = "RECORD" THEN <<W("    hidden: yes\n", <<>>)>>
            ELSE <<W("    type: string\n", <<>>)>>
    IN  open \o attrs
        \o <<W("    sql: ${TABLE}.{} ;;\n", <<field.name>>), W("  }\n\n", <<>>)>>

\* write_field for every column of fields, in order
RECURSIVE WriteFields(_)
WriteFields(fields) ==
    IF fields = <<>> THEN <<>>
    ELSE write_field(fields[1]) \o WriteFields(Tail(fields))

\* write_look_ml, lines 128-132: the view header and the table reference
\* (<bt> stands for the backquote character)
HeaderWrites(name) ==
    <<W("view: {} {\n", <<dataset_id \o DoubleUnderscore \o clear_name(name)>>),
      W("  sql_table_name: <bt>{}.{}.{}",
        <<project_id, dataset_id, clear_name(name)>>)>>
    \o (IF is_sharding(name) THEN <<W("_*", <<>>)>> ELSE <<>>)
    \o <<W("<bt>\n    ;;\n\n", <<>>)>>

\* write_look_ml, lines 138-149: the count measure and its drill fields
MeasureWrites(schema) ==
    LET names == {schema[i].name : i \in DOMAIN schema}
        drill_fields ==
            (IF Str_id \in names THEN <<Str_id>> ELSE <<>>)
            \o (IF Str_name \in names THEN <<Str_name>> ELSE <<>>)
    IN  <<W("  measure: count {\n", <<>>),
          W("    type: count\n", <<>>),
          W("    drill_fields: [{}]\n", <<JoinComma(drill_fields)>>),
          W("  }\n", <<>>),
          W("}\n\n", <<>>)>>

\* write_record_child, lines 117-120: the view block of one RECORD column
ViewBlock(field, prefix) ==
    <<W("view: {} {\n", <<prefix \o field.name>>)>>
    \o WriteFields(field.fields)
    \o <<W("}\n\n", <<>>)>>

\* the prefix write_look_ml passes to write_record_child
RootPrefix(name) ==
    dataset_id \o DoubleUnderscore \o clear_name(name) \o DoubleUnderscore

\* the prefix write_record_child passes down
ChildPrefix(field, prefix) == prefix \o field.name \o DoubleUnderscore

\* write_record_child: the view of field, then those of its RECORD columns
RECURSIVE write_record_child(_, _)
RECURSIVE WriteRecordChildren(_, _)
write_record_child(field, prefix) ==
    ViewBlock(field, prefix)
    \o WriteRecordChildren(RecordFields(field.fields), ChildPrefix(field, prefix))

WriteRecordChildren(records, prefix) ==
    IF records = <<>> THEN <<>>
    ELSE write_record_child(records[1], prefix)
         \o WriteRecordChildren(Tail(records), prefix)

\* write_look_ml: everything it writes for the table name with this schema
write_look_ml(name, schema) ==
    HeaderWrites(name) \o WriteFields(schema) \o MeasureWrites(schema)
    \o WriteRecordChildren(RecordFields(schema), RootPrefix(name))

\* The pending calls of write_record_child, innermost first.
Frames(records, prefix) ==
    [i \in 1..Len(records) |-> [field |-> records[i], prefix |-> prefix]]

\* the calls of a column RECORD children put behind all pending calls
PushChildrenLast(stack, field, prefix) ==
    stack \o Frames(RecordFields(field.fields), ChildPrefix(field, prefix))

\* write_record_child, lines 122-123: the calls for field's RECORD columns
\* run before the caller's remaining ones
PushChildren(stack, field, prefix) ==
    Frames(RecordFields(field.fields), ChildPrefix(field, prefix)) \o stack

----------------------------------------------------------------------------
(* The inputs: the dataset in the warehouse *)

\* the most tables a dataset holds
MaxTables == 3
\* the most columns, nested ones included, of a generated schema tree
MaxFields == 3
\* the most columns, nested ones included, of a generated schema whose
\* columns range over every type
MaxTypedFields == 2

\* the name of the column at position i of its record: id, name, c, d, ...
ColName(i) == IF i = 1 THEN Str_id ELSE IF i = 2 THEN Str_name ELSE <<96 + i>>

\* The schemas of at most n columns whose columns after position pos - 1
\* are named by position and whose scalar columns have a type of types.
RECURSIVE ForestFrom(_, _, _)
ForestFrom(n, pos, types) ==
    {<<>>} \cup
    UNION { { <<f>> \o rest :
                f \in {Field(ColName(pos), t, <<>>) : t \in types}
                      \cup {Field(ColName(pos), "RECORD", c) :
                                c \in ForestFrom(k - 1, 1, types)},
                rest \in ForestFrom(n - k, pos + 1, types) } : k \in 1..n }

ScalarTypes ==
    TimeTypes \cup NumberTypes \cup {"BOOLEAN", "STRING", "GEOGRAPHY"}

\* the schemas a table of the pipeline runs may have
TableSchemas ==
    { <<>>,
      <<Field(Str_id, "INTEGER", <<>>), Field(<<120>>, "RECORD", <<>>)>> }

\* the schemas the renderer runs draw from
RenderSchemas ==
    ForestFrom(MaxFields, 1, {"STRING"})
    \cup ForestFrom(MaxTypedFields, 1, ScalarTypes)

\* every order in which the warehouse may list the tables of ds, with or
\* without a row whose table_id is null
RowOrders(ds) ==
    LET n == Cardinality(ds)
        perms == {s \in [1..n -> ds] : \A i, j \in 1..n : s[i] = s[j] => i = j}
    IN  {[i \in 1..n |-> Some(s[i])] : s \in perms}
        \cup {[i \in 1..(n + 1) |-> IF i = 1 THEN None ELSE Some(s[i - 1])] :
                  s \in perms}

----------------------------------------------------------------------------
(* The state of a run of main *)

VARIABLES
    dataset,      \* the physical table names of the dataset
    schemaOf,     \* the schema client.get_table returns for each table
    tables_info,  \* the sorted TableInfo list filter_latest_tables_info has
                  \* not grouped yet
    info,         \* the TableInfo the loop of main holds, or None
    schema_memo,  \* TableInfo._schema of every table
    get_table_calls, \* the calls of client.get_table per table in this run
    disk,         \* the files under ./views: path -> the writes it holds
    pc,           \* the position of main
    idx,          \* the column the loop of write_look_ml line 134 is at
    stack,        \* the pending calls of write_record_child
    emitted,      \* the tables filter_latest_tables_info has yielded
    pass,         \* "first" or "again": the run of main this is
    prev          \* what the previous complete run wrote

vars == <<dataset, schemaOf, tables_info, info, schema_memo,
          get_table_calls, disk, pc, idx, stack, emitted, pass, prev>>

EmptyDisk == [p \in {} |-> <<>>]

\* the paths main opened, in order
Paths(tables) == [i \in 1..Len(tables) |-> Path(tables[i])]

InitRun ==
    /\ tables_info = <<>>
    /\ info = None
    /\ schema_memo = [n \in dataset |-> None]
    /\ get_table_calls = [n \in dataset |-> 0]
    /\ disk = EmptyDisk
    /\ pc = "start"
    /\ idx = 0
    /\ stack = <<>>
    /\ emitted = <<>>
    /\ pass = "first"
    /\ prev = [paths |-> <<>>, disk |-> EmptyDisk]

\* a dataset of up to MaxTables tables, an empty output directory
Init ==
    /\ dataset \in {ds \in SUBSET Names : Cardinality(ds) \in 1..MaxTables}
    /\ schemaOf \in [dataset -> TableSchemas]
    /\ InitRun

\* a dataset of one table with a generated schema
InitRender ==
    /\ dataset \in {{Lower_t}, {Lower_t \o Underscore \o Date_20230101}}
    /\ schemaOf \in [dataset -> RenderSchemas]
    /\ InitRun

----------------------------------------------------------------------------
(* TableInfo.schema: the memoised fetch *)

\* not self._schema
NeedsFetchFalsy(memo) == IF memo = None THEN TRUE ELSE memo[1] = <<>>

\* self._schema is None
NeedsFetch(memo) == memo = None

\* one read of info.schema for table n: the memo and the call counts after it
ReadSchema(st, n) ==
    IF NeedsFetch(st.memo[n])
    THEN [memo |-> [st.memo EXCEPT ![n] = Some(schemaOf[n])],
          calls |-> [st.calls EXCEPT ![n] = @ + 1]]
    ELSE st

\* open(path, 'w'): the file exists and is empty
OpenW(d, p) == [q \in DOMAIN d \cup {p} |-> IF q = p THEN <<>> ELSE d[q]]

\* f.write calls on the open file of the table name
WriteTo(d, name, writes) == [d EXCEPT ![Path(name)] = @ \o writes]

----------------------------------------------------------------------------
(* The steps of main *)

\* main lines 172-174: the listing query answers with the rows in some
\* order, and sorted reads them through get_table_refs and sorts them
GetTablesInfo ==
    /\ pc = "start"
    /\ \E rows \in RowOrders(dataset) :
           tables_info' = get_tables_info(TableRefs(rows))
    /\ pc' = "loop"
    /\ UNCHANGED <<dataset, schemaOf, info, schema_memo, get_table_calls,
                   disk, idx, stack, emitted, pass, prev>>

\* main lines 176-179: the generator yields the next representative, its
\* directory is made and its file is opened for writing
NextTable ==
    /\ pc = "loop"
    /\ tables_info # <<>>
    /\ LET k == GroupLen(tables_info)
           rep == LatestOf(SubSeq(tables_info, 1, k))
       IN  /\ tables_info' = SubSeq(tables_info, k + 1, Len(tables_info))
           /\ info' = Some(rep)
           /\ emitted' = Append(emitted, rep)
           /\ disk' = OpenW(disk, Path(rep))
    /\ pc' = "header"
    /\ UNCHANGED <<dataset, schemaOf, schema_memo, get_table_calls,
                   idx, stack, pass, prev>>

\* main lines 177-178: create_dir or open raises
OpenFail ==
    /\ pc = "loop"
    /\ tables_info # <<>>
    /\ LET k == GroupLen(tables_info)
           rep == LatestOf(SubSeq(tables_info, 1, k))
       IN  /\ tables_info' = SubSeq(tables_info, k + 1, Len(tables_info))
           /\ info' = Some(rep)
           /\ emitted' = Append(emitted, rep)
    /\ pc' = "aborted"
    /\ UNCHANGED <<dataset, schemaOf, schema_memo, get_table_calls,
                   disk, idx, stack, pass, prev>>

\* main line 176: the generator is exhausted
LoopEnd ==
    /\ pc = "loop"
    /\ tables_info = <<>>
    /\ info' = None
    /\ pc' = "done"
    /\ UNCHANGED <<dataset, schemaOf, tables_info, schema_memo,
                   get_table_calls, disk, idx, stack, emitted, pass, prev>>

\* write_look_ml lines 128-132
WriteHeader ==
    /\ pc = "header"
    /\ disk' = WriteTo(disk, info[1], HeaderWrites(info[1]))
    /\ pc' = "schema"
    /\ UNCHANGED <<dataset, schemaOf, tables_info, info,
                   schema_memo, get_table_calls, idx, stack, emitted, pass,
                   prev>>

\* write_look_ml line 134: info.schema is read for the loop over the columns
FetchSchema ==
    /\ pc = "schema"
    /\ LET st == ReadSchema([memo |-> schema_memo, calls |-> get_table_calls],
                            info[1])
       IN  /\ schema_memo' = st.memo
           /\ get_table_calls' = st.calls
    /\ idx' = 1
    /\ pc' = "fields"
    /\ UNCHANGED <<dataset, schemaOf, tables_info, info, disk,
                   stack, emitted, pass, prev>>

\* TableInfo.schema line 40: client.get_table raises
FetchFail ==
    /\ pc = "schema"
    /\ NeedsFetch(schema_memo[info[1]])
    /\ pc' = "aborted"
    /\ UNCHANGED <<dataset, schemaOf, tables_info, info,
                   schema_memo, get_table_calls, disk, idx, stack, emitted,
                   pass, prev>>

\* write_look_ml lines 134-135: write_field for the next column
WriteFieldStep ==
    /\ pc = "fields"
    /\ idx <= Len(schema_memo[info[1]][1])
    /\ disk' = WriteTo(disk, info[1], write_field(schema_memo[info[1]][1][idx]))
    /\ idx' = idx + 1
    /\ UNCHANGED <<dataset, schemaOf, tables_info, info,
                   schema_memo, get_table_calls, pc, stack, emitted, pass,
                   prev>>

\* write_look_ml lines 137-151: the measure, for which info.schema is read
\* twice, and the read of info.schema for the loop over the RECORD columns
WriteMeasure ==
    /\ pc = "fields"
    /\ idx > Len(schema_memo[info[1]][1])
    /\ LET n == info[1]
           st0 == [memo |-> schema_memo, calls |-> get_table_calls]
           st1 == ReadSchema(st0, n)
           st2 == ReadSchema(st1, n)
           st3 == ReadSchema(st2, n)
       IN  /\ disk' = WriteTo(disk, n, MeasureWrites(st2.memo[n][1]))
           /\ schema_memo' = st3.memo
           /\ get_table_calls' = st3.calls
           /\ stack' = Frames(RecordFields(st3.memo[n][1]), RootPrefix(n))
    /\ pc' = "children"
    /\ UNCHANGED <<dataset, schemaOf, tables_info, info, idx,
                   emitted, pass, prev>>

\* write_record_child: the innermost pending call writes its view block and
\* calls itself for its RECORD columns
WriteRecordChild ==
    /\ pc = "children"
    /\ stack # <<>>
    /\ LET top == stack[1]
       IN  /\ disk' = WriteTo(disk, info[1], ViewBlock(top.field, top.prefix))
           /\ stack' = PushChildren(Tail(stack), top.field, top.prefix)
    /\ UNCHANGED <<dataset, schemaOf, tables_info, info,
                   schema_memo, get_table_calls, pc, idx, emitted, pass, prev>>

\* main line 178: write_look_ml has returned and the with block closes f
CloseFile ==
    /\ pc = "children"
    /\ stack = <<>>
    /\ pc' = "loop"
    /\ UNCHANGED <<dataset, schemaOf, tables_info, info,
                   schema_memo, get_table_calls, disk, idx, stack, emitted,
                   pass, prev>>

\* an f.write of write_look_ml raises: what was written stays in the file
WriteFail ==
    /\ pc \in {"header", "fields", "children"}
    /\ pc' = "aborted"
    /\ UNCHANGED <<dataset, schemaOf, tables_info, info,
                   schema_memo, get_table_calls, disk, idx, stack, emitted,
                   pass, prev>>

\* main is run once more on the unchanged dataset, over the files of the
\* first run
Rerun ==
    /\ pc = "done"
    /\ pass = "first"
    /\ pass' = "again"
    /\ prev' = [paths |-> Paths(emitted), disk |-> disk]
    /\ schema_memo' = [n \in dataset |-> None]
    /\ get_table_calls' = [n \in dataset |-> 0]
    /\ emitted' = <<>>
    /\ idx' = 0
    /\ pc' = "start"
    /\ UNCHANGED <<dataset, schemaOf, tables_info, info, disk,
                   stack>>

Next ==
    \/ GetTablesInfo
    \/ NextTable
    \/ OpenFail
    \/ LoopEnd
    \/ WriteHeader
    \/ FetchSchema
    \/ FetchFail
    \/ WriteFieldStep
    \/ WriteMeasure
    \/ WriteRecordChild
    \/ CloseFile
    \/ WriteFail
    \/ Rerun

Spec == Init /\ [][Next]_vars

SpecRender == InitRender /\ [][Next]_vars

----------------------------------------------------------------------------
(* What the properties below speak of *)

\* the tables of the dataset that share the logical name of n
Family(n) == {m \in dataset : clear_name(m) = clear_name(n)}

\* p ends in an underscore followed by exactly eight digits
EndsWithDateSuffix(p) ==
    \E stem \in 0..Len(p) :
        /\ Len(p) = stem + 9
        /\ p[stem + 1] = 95
        /\ \A i \in (stem + 2)..(stem + 9) : p[i] \in 48..57

\* a is an initial part of b
IsPrefix(a, b) == Len(a) <= Len(b) /\ a = SubSeq(b, 1, Len(a))

\* the TableInfo objects that exist
TableInfos == Range(tables_info) \cup Range(emitted)

\* the file of the logical table L
LogicalPath(L) == <<dataset_id, L \o ViewExt>>

\* the complete rendering of table n
Rendering(n) == write_look_ml(n, schemaOf[n])

\* the number the last eight characters of a shard name spell
DateNum(n) ==
    LET d(k) == n[Len(n) - 8 + k] - 48
    IN  d(1) * 10000000 + d(2) * 1000000 + d(3) * 100000 + d(4) * 10000
        + d(5) * 1000 + d(6) * 100 + d(7) * 10 + d(8)

----------------------------------------------------------------------------
(* The shard collapser *)

\* C1: every table the collapser yields has the greatest physical name, in
\* code-point order, among the tables of the dataset that share its logical
\* name, and when the loop is over the tables yielded are exactly these
\* greatest tables, one for every logical name, whatever the listing order.
C1_LatestShardSelected ==
    /\ \A i \in DOMAIN emitted :
           \A m \in Family(emitted[i]) : m = emitted[i] \/ StrLess(m, emitted[i])
    /\ pc = "done" =>
           \A n \in dataset :
               \E i \in DOMAIN emitted :
                   /\ emitted[i] \in Family(n)
                   /\ \A m \in Family(n) : m = emitted[i] \/ StrLess(m, emitted[i])

\* the family t_20230101, t_20230215, t_20220601 has collapsed to t_20230215
C1_Witness ==
    /\ pc = "done"
    /\ dataset = { Lower_t \o Underscore \o Date_20230101,
                   Lower_t \o Underscore \o Date_20230215,
                   Lower_t \o Underscore \o Date_20220601 }
    /\ emitted = <<Lower_t \o Underscore \o Date_20230215>>
    /\ clear_name(emitted[1]) = Lower_t

\* C2: no two tables the collapser yields share a logical name, and when the
\* loop is over every logical name of the dataset has been yielded.
C2_OnePerLogicalName ==
    /\ \A i, j \in DOMAIN emitted :
           clear_name(emitted[i]) = clear_name(emitted[j]) => i = j
    /\ pc = "done" =>
           {clear_name(emitted[i]) : i \in DOMAIN emitted}
               = {clear_name(n) : n \in dataset}

\* three tables of two families have been collapsed to two
C2_Witness ==
    /\ pc = "done"
    /\ Cardinality(dataset) = 3
    /\ Len(emitted) = 2

\* C3: a physical name that ends in an underscore and exactly eight digits
\* has that 9-character suffix removed and is sharded; any other name, a
\* name with a digit run of another length included, is its own logical
\* name and is not sharded.
C3_ExactSuffixStripped ==
    \A p \in TableInfos :
        IF EndsWithDateSuffix(p)
        THEN clear_name(p) = SubSeq(p, 1, Len(p) - 9) /\ is_sharding(p)
        ELSE clear_name(p) = p /\ ~is_sharding(p)

\* a shard, a name with seven digits and a name with nine are in one listing
C3_Witness ==
    /\ pc = "loop"
    /\ Lower_t \o Underscore \o Date_20230101 \in TableInfos
    /\ Lower_t \o Underscore \o Digits(<<2, 0, 2, 3, 0, 1, 0>>) \in TableInfos
    /\ Lower_t \o Underscore \o Digits(<<2, 0, 2, 3, 0, 1, 0, 1, 1>>) \in TableInfos

\* C4: the logical name of a non-empty physical name is a non-empty prefix
\* of it.
C4_NonEmptyPrefix ==
    \A p \in TableInfos :
        p # <<>> => clear_name(p) # <<>> /\ IsPrefix(clear_name(p), p)

----------------------------------------------------------------------------
(* The schema fetch and the files of a run *)

\* C5: in a run client.get_table is called at most once for a table, also
\* when its schema is the empty list and after all four reads of info.schema
\* in write_look_ml, and it is called only for tables the collapser yielded.
C5_FetchAtMostOnce ==
    \A n \in dataset :
        /\ get_table_calls[n] <= 1
        /\ get_table_calls[n] > 0 => n \in Range(emitted)

\* a table with an empty schema has been rendered to the end with one fetch
\* while a shard of the dataset was discarded and never fetched
C5_Witness ==
    /\ pc = "done"
    /\ \E n \in dataset :
           /\ schemaOf[n] = <<>>
           /\ get_table_calls[n] = 1
           /\ disk[Path(n)] = Rendering(n)
    /\ \E m \in dataset : m \notin Range(emitted) /\ get_table_calls[m] = 0

\* the tables yielded so far are the first logical tables in sort order
EmittedInSortOrder ==
    /\ \A i, j \in DOMAIN emitted :
           i < j => StrLess(clear_name(emitted[i]), clear_name(emitted[j]))
    /\ \A n \in dataset :
           emitted # <<>>
           /\ StrLess(clear_name(n), clear_name(emitted[Len(emitted)]))
           => \E i \in DOMAIN emitted : clear_name(emitted[i]) = clear_name(n)

\* the files of the logical tables before the last one yielded are complete
EarlierFilesComplete ==
    \A i \in 1..(Len(emitted) - 1) :
        LET p == LogicalPath(clear_name(emitted[i]))
        IN  p \in DOMAIN disk /\ disk[p] = Rendering(emitted[i])

\* C6 as stated: after an abort of the first run at the k-th logical table
\* the files are exactly the complete renderings of the tables before k, and
\* there is no file, empty or partial, for table k or a later one.
C6_NoFileForFailedTable ==
    (pc = "aborted" /\ pass = "first") =>
        /\ EmittedInSortOrder
        /\ EarlierFilesComplete
        /\ DOMAIN disk = {LogicalPath(clear_name(emitted[i])) :
                              i \in 1..(Len(emitted) - 1)}

\* C6 amended: after an abort of the first run at the k-th logical table the
\* files of the tables before k are complete, no file exists for a table
\* after k, and the file of table k is absent or holds an initial part of
\* its rendering.
C6_PrefixOnAbort ==
    (pc = "aborted" /\ pass = "first") =>
        /\ EmittedInSortOrder
        /\ EarlierFilesComplete
        /\ DOMAIN disk \subseteq {LogicalPath(clear_name(emitted[i])) :
                                      i \in DOMAIN emitted}
        /\ LET last == emitted[Len(emitted)]
               p == LogicalPath(clear_name(last))
           IN  p \in DOMAIN disk => IsPrefix(disk[p], Rendering(last))

\* the schema fetch of the second logical table failed: the first file is
\* complete and the second holds the header alone
C6_Witness ==
    /\ pc = "aborted"
    /\ pass = "first"
    /\ Len(emitted) = 2
    /\ Cardinality(dataset) = 3
    /\ get_table_calls[emitted[2]] = 0
    /\ Path(emitted[2]) \in DOMAIN disk
    /\ disk[Path(emitted[1])] = Rendering(emitted[1])
    /\ disk[Path(emitted[2])] = HeaderWrites(emitted[2])

\* C7: a second complete run over the unchanged dataset, whatever the order
\* of its listing, opens the same paths in the same order and leaves every
\* file with the same content as the first run.
C7_RerunIdentical ==
    (pass = "again" /\ pc = "done") =>
        /\ Paths(emitted) = prev.paths
        /\ disk = prev.disk

\* the second run over a dataset of three tables in two families is complete
C7_Witness ==
    /\ pass = "again"
    /\ pc = "done"
    /\ Cardinality(dataset) = 3
    /\ Len(emitted) = 2
    /\ \E n \in dataset : schemaOf[n] # schemaOf[emitted[1]]

----------------------------------------------------------------------------
(* The renderer *)

\* the index paths of the RECORD columns of a schema, at any depth
RECURSIVE RecordPaths(_)
RecordPaths(fields) ==
    UNION { {<<i>>} \cup {<<i>> \o q : q \in RecordPaths(fields[i].fields)} :
            i \in {j \in DOMAIN fields : fields[j].field_type = "RECORD"} }

\* a set of index paths in pre-order: a path before its extensions, which
\* come before the next sibling
RECURSIVE InPreOrder(_)
InPreOrder(S) ==
    IF S = {} THEN <<>>
    ELSE LET first == CHOOSE q \in S : \A r \in S : r = q \/ StrLess(q, r)
         IN  <<first>> \o InPreOrder(S \ {first})

\* the column at an index path
RECURSIVE ColumnAt(_, _)
ColumnAt(fields, path) ==
    IF Len(path) = 1 THEN fields[path[1]]
    ELSE ColumnAt(fields[path[1]].fields, Tail(path))

\* the field names along an index path, joined with a double underscore
RECURSIVE NamesAlong(_, _)
NamesAlong(fields, path) ==
    IF Len(path) = 1 THEN fields[path[1]].name
    ELSE fields[path[1]].name \o <<95, 95>>
         \o NamesAlong(fields[path[1]].fields, Tail(path))

\* the names of the view blocks a file holds, in order
ViewNames(content) ==
    LET v == SelectSeq(content, LAMBDA w : w.fmt = "view: {} {\n")
    IN  [i \in 1..Len(v) |-> v[i].args[1]]

\* the view names the file of table n is to hold
ExpectedViews(n) ==
    LET root == <<100, 95, 95>> \o clear_name(n)
        paths == InPreOrder(RecordPaths(schemaOf[n]))
    IN  <<root>>
        \o [i \in 1..Len(paths) |->
                root \o <<95, 95>> \o NamesAlong(schemaOf[n], paths[i])]

\* the RECORD columns in and below a list of columns
RECURSIVE RecordCount(_)
RecordCount(fields) ==
    IF fields = <<>> THEN 0
    ELSE (IF fields[1].field_type = "RECORD"
          THEN 1 + RecordCount(fields[1].fields) ELSE 0)
         + RecordCount(Tail(fields))

\* the view blocks the pending calls of write_record_child have yet to write
RECURSIVE PendingViews(_)
PendingViews(st) ==
    IF st = <<>> THEN 0
    ELSE 1 + RecordCount(st[1].field.fields) + PendingViews(Tail(st))

\* C8: while the child views are written the view blocks of the file are an
\* initial part of: the root view, then one view per RECORD column at any
\* depth in pre-order, each named by the root view name and the field names
\* on its path joined with double underscores; every step writes one of the
\* views still missing, a step is possible while one is missing, and when
\* none is pending the file holds exactly these views.
C8_ChildViewsInPreOrder ==
    /\ pc = "children" =>
           LET n == info[1]
               names == ViewNames(disk[Path(n)])
           IN  /\ IsPrefix(names, ExpectedViews(n))
               /\ Len(names) + PendingViews(stack) = Len(ExpectedViews(n))
               /\ stack # <<>> => ENABLED WriteRecordChild
               /\ stack = <<>> => names = ExpectedViews(n)
    /\ pc \in {"loop", "done"} =>
           \A i \in DOMAIN emitted :
               ViewNames(disk[Path(emitted[i])]) = ExpectedViews(emitted[i])

\* the views of a table t with the columns id {id {}} and name {} are
\* written: d__t, d__t__id, d__t__id__id, d__t__name
C8_Witness ==
    /\ pc = "children"
    /\ stack = <<>>
    /\ info = Some(Lower_t)
    /\ ViewNames(disk[Path(Lower_t)])
         = << <<100, 95, 95, 116>>,
              <<100, 95, 95, 116, 95, 95, 105, 100>>,
              <<100, 95, 95, 116, 95, 95, 105, 100, 95, 95, 105, 100>>,
              <<100, 95, 95, 116, 95, 95, 110, 97, 109, 101>> >>

\* the positions of a file at which a field block opens
BlockStarts(content) ==
    {i \in DOMAIN content :
        content[i].fmt \in {"  dimension: {} {\n", "  dimension_group: {} {\n"}}

\* the field block that opens at position i
BlockAt(content, i) ==
    SubSeq(content, i,
           CHOOSE j \in i..Len(content) :
               /\ content[j].fmt = "  }\n\n"
               /\ \A l \in i..(j - 1) : content[l].fmt # "  }\n\n")

\* the field blocks of a file, in order
RECURSIVE BlocksFrom(_, _)
BlocksFrom(content, starts) ==
    IF starts = {} THEN <<>>
    ELSE LET i == CHOOSE m \in starts : \A k \in starts : m <= k
         IN  <<BlockAt(content, i)>> \o BlocksFrom(content, starts \ {i})

Blocks(content) == BlocksFrom(content, BlockStarts(content))

\* the kind of a field block
BlockKind(b) ==
    IF b[1].fmt = "  dimension_group: {} {\n" THEN "dimension_group"
    ELSE "dimension"

\* the lines of a field block other than its opening, its primary_key line,
\* its sql line and its closing
BlockAttrs(b) ==
    LET rest == SelectSeq(SubSeq(b, 2, Len(b)),
                          LAMBDA w : w.fmt \notin {"    primary_key: yes\n",
                                                   "    sql: ${TABLE}.{} ;;\n",
                                                   "  }\n\n"})
    IN  [i \in 1..Len(rest) |-> rest[i].fmt]

\* the kind of block the type t is to give
ExpectedKind(t) ==
    IF t \in {"TIME", "TIMESTAMP", "DATE", "DATETIME"} THEN "dimension_group"
    ELSE "dimension"

\* the attribute lines the type t is to give
ExpectedAttrs(t) ==
    CASE t \in {"TIME", "TIMESTAMP", "DATETIME"} ->
            <<"    type: time\n", "    timeframes: [\n", "      raw,\n",
              "      time,\n", "      date,\n", "      week,\n",
              "      month,\n", "      quarter,\n", "      year\n", "    ]\n">>
      [] t = "DATE" ->
            <<"    type: time\n", "    timeframes: [\n", "      raw,\n",
              "      date,\n", "      week,\n", "      month,\n",
              "      quarter,\n", "      year\n", "    ]\n",
              "    convert_tz: no\n", "    datatype: date\n">>
      [] t \in {"INTEGER", "FLOAT", "NUMERIC"} -> <<"    type: number\n">>
      [] t = "BOOLEAN" -> <<"    type: yesno\n">>
      [] t = "RECORD" -> <<"    hidden: yes\n">>
      [] OTHER -> <<"    type: string\n">>

\* the field blocks bs are those of the columns cols, in order
BlocksMatch(bs, cols) ==
    /\ Len(bs) = Len(cols)
    /\ \A i \in DOMAIN cols :
           /\ bs[i][1].args = <<cols[i].name>>
           /\ BlockKind(bs[i]) = ExpectedKind(cols[i].field_type)
           /\ BlockAttrs(bs[i]) = ExpectedAttrs(cols[i].field_type)

\* the columns of the RECORD columns at the index paths, concatenated
RECURSIVE ColumnsBelow(_, _)
ColumnsBelow(fields, paths) ==
    IF paths = <<>> THEN <<>>
    ELSE ColumnAt(fields, paths[1]).fields \o ColumnsBelow(fields, Tail(paths))

\* C9: the block write_field writes for a column has the kind and the
\* attribute lines its type calls for, whatever the name of the column: the
\* blocks written so far by the loop over the top-level columns, and at the
\* end of a file the blocks of all columns, nested ones included; the loop
\* can write the block of its next column whatever the type of that column.
C9_FieldBlockByType ==
    /\ pc = "fields" =>
           LET n == info[1]
           IN  /\ BlocksMatch(Blocks(disk[Path(n)]),
                              SubSeq(schemaOf[n], 1, idx - 1))
               /\ idx <= Len(schemaOf[n]) => ENABLED WriteFieldStep
    /\ (pc = "children" /\ stack = <<>>) =>
           LET n == info[1]
               sch == schemaOf[n]
           IN  BlocksMatch(Blocks(disk[Path(n)]),
                           sch \o ColumnsBelow(sch, InPreOrder(RecordPaths(sch))))

\* a DATE column named id and a column of a type the code does not know
\* have been written
C9_Witness ==
    /\ pc = "fields"
    /\ idx = 3
    /\ schemaOf[info[1]][1].field_type = "DATE"
    /\ schemaOf[info[1]][2].field_type = "GEOGRAPHY"
    /\ Len(Blocks(disk[Path(info[1])])) = 2

====
